---- MODULE Spec2Model ----
(***************************************************************************)
(* Model of the rust-calculator crate: the sign-magnitude decimal BigNum   *)
(* (big_num.rs), the Frac built on it (frac.rs), the Value union that      *)
(* dispatches over both (common.rs), and the recursive-descent parser and  *)
(* tree-walking evaluator (parser.rs).                                     *)
(***************************************************************************)
EXTENDS Integers, Sequences, FiniteSets, TLC

(***************************************************************************)
(* Bounds of the model.                                                    *)
(***************************************************************************)
\* longest digit vector of a BigNum operand drawn in InitBig
MaxDigits == 2
\* number of chained BigNum operations in one behaviour of SpecBig
MaxBigOps == 2

\* number of times SpecValue feeds a result back as an operand
MaxValOps == 1
\* longest integer literal text SpecValue starts from
MaxLitLen == 2

\* longest digit vector of a numerator or denominator given to Frac::new
\* in InitFrac
MaxFracDigits == 1

\* most nodes of an expression tree SpecEval writes its input from
MaxNodes == 5
\* longest arbitrary input text of SpecEval
MaxTextLen == 3

\* the digit values the operands of SpecBig are built from
InputDigits == {0, 1, 5, 9}
\* the digit values the arguments of Frac::new in SpecFrac are built from
FracDigits == {0, 1, 2, 4}
\* the digit characters the literals of SpecValue are written with
LitChars == {"0", "1", "2", "3"}
\* the characters the arbitrary input texts of SpecEval are written with
TextChars == {"0", "1", "2", "+", "-", "*", "/", "(", ")", " ", "\t", "x"}

(***************************************************************************)
(* A panic (panic!, or unwrap() on None) unwinds through every caller; it  *)
(* is modelled as a distinguished result that every caller passes on.      *)
(***************************************************************************)
Panic == [panic |-> TRUE]

IsPanic(x) == "panic" \in DOMAIN x

\* Ok(v) where computing v may have panicked
Wrap(v) == IF IsPanic(v) THEN Panic ELSE [ok |-> v]

(***************************************************************************)
(* big_num.rs: BigNum { sign: bool, num: Vec<u8> }, most significant       *)
(* digit first.  Vectors are 1-indexed here, 0-indexed in the source.      *)
(***************************************************************************)
BigNum(sign, num) == [sign |-> sign, num |-> num]

new == BigNum(TRUE, <<0>>)

zero == new

is_num_zero(num) == \A i \in 1..Len(num) : num[i] = 0

is_zero(x) == is_num_zero(x.num)

is_negative(x) == x.sign = FALSE

RECURSIVE remove_leading_zeros(_)
remove_leading_zeros(num) ==
    IF num # <<>> /\ Head(num) = 0 THEN remove_leading_zeros(Tail(num)) ELSE num

from(num, sign) ==
    IF is_num_zero(num) THEN zero
    ELSE BigNum(sign, remove_leading_zeros(num))

abs(x) == BigNum(TRUE, x.num)

set_sign(x, sign) == BigNum(sign, x.num)

negate(x) == BigNum(~x.sign, x.num)

one == from(<<1>>, TRUE)

BigNum_neg(x) == negate(x)

\* num.insert(0, 0) until the vector has max_len digits
RECURSIVE PadLeft(_, _)
PadLeft(num, max_len) ==
    IF Len(num) < max_len THEN PadLeft(<<0>> \o num, max_len) ELSE num

\* while result.len() > 1 && result[0] == 0 { result.remove(0) }
RECURSIVE StripResult(_)
StripResult(result) ==
    IF Len(result) > 1 /\ result[1] = 0 THEN StripResult(Tail(result)) ELSE result

\* Vec<u8> ordering (num1 > num2): lexicographic, a proper prefix is smaller
RECURSIVE VecGt(_, _)
VecGt(v1, v2) ==
    IF v1 = <<>> THEN FALSE
    ELSE IF v2 = <<>> THEN TRUE
    ELSE IF Head(v1) > Head(v2) THEN TRUE
    ELSE IF Head(v1) < Head(v2) THEN FALSE
    ELSE VecGt(Tail(v1), Tail(v2))

\* for i in (0..max_len).rev(): the same-sign column sum with carry
RECURSIVE AddLoop(_, _, _, _, _)
AddLoop(num1, num2, i, carry, result) ==
    IF i = 0 THEN [result EXCEPT ![1] = carry]
    ELSE LET sum == (num1[i] + num2[i] + carry) % 256
         IN  AddLoop(num1, num2, i - 1, sum \div 10,
                     [result EXCEPT ![i + 1] = sum % 10])

\* for i in (0..max_len).rev(): larger - smaller with borrow
RECURSIVE SubLoop(_, _, _, _, _)
SubLoop(larger, smaller, i, borrow, result) ==
    IF i = 0 THEN result
    ELSE LET diff == larger[i] - smaller[i] - borrow
         IN  IF diff < 0
             THEN SubLoop(larger, smaller, i - 1, 1, [result EXCEPT ![i] = diff + 10])
             ELSE SubLoop(larger, smaller, i - 1, 0, [result EXCEPT ![i] = diff])

\* std::cmp::max(self.num.len(), other.num.len())
max_len(num1, num2) == IF Len(num1) > Len(num2) THEN Len(num1) ELSE Len(num2)

\* the body of add once both vectors are padded to len digits; in the
\* different-sign branch (larger, smaller, result_sign) is (num1, num2,
\* self.sign) if num1 > num2 and (num2, num1, other.sign) otherwise
AddPadded(self_sign, other_sign, num1, num2, len) ==
    IF self_sign = other_sign
    THEN BigNum(self_sign,
                StripResult(AddLoop(num1, num2, len, 0, [k \in 1..(len + 1) |-> 0])))
    ELSE IF VecGt(num1, num2)
    THEN BigNum(self_sign,
                StripResult(SubLoop(num1, num2, len, 0, [k \in 1..len |-> 0])))
    ELSE BigNum(other_sign,
                StripResult(SubLoop(num2, num1, len, 0, [k \in 1..len |-> 0])))

\* add that takes other to have the sign of self
BigNum_add_samesign(self, other) ==
    AddPadded(self.sign, self.sign,
              PadLeft(self.num, max_len(self.num, other.num)),
              PadLeft(other.num, max_len(self.num, other.num)),
              max_len(self.num, other.num))

BigNum_add(self, other) ==
    AddPadded(self.sign, other.sign,
              PadLeft(self.num, max_len(self.num, other.num)),
              PadLeft(other.num, max_len(self.num, other.num)),
              max_len(self.num, other.num))

BigNum_eq(self, other) == self.sign = other.sign /\ self.num = other.num

\* for (&n1, &n2) in self.num.iter().zip(other.num.iter())
RECURSIVE CmpDigits(_, _, _)
CmpDigits(v1, v2, sign) ==
    IF v1 = <<>> \/ v2 = <<>> THEN "Equal"
    ELSE IF Head(v1) > Head(v2) THEN (IF sign THEN "Greater" ELSE "Less")
    ELSE IF Head(v1) < Head(v2) THEN (IF sign THEN "Less" ELSE "Greater")
    ELSE CmpDigits(Tail(v1), Tail(v2), sign)

\* partial_cmp comparing magnitudes only once the signs agree
BigNum_partial_cmp_magnitude(self, other) ==
    IF self.sign /\ ~other.sign THEN "Greater"
    ELSE IF ~self.sign /\ other.sign THEN "Less"
    ELSE IF Len(self.num) > Len(other.num) THEN "Greater"
    ELSE IF Len(self.num) < Len(other.num) THEN "Less"
    ELSE CmpDigits(self.num, other.num, TRUE)

BigNum_partial_cmp(self, other) ==
    IF self.sign /\ ~other.sign THEN "Greater"
    ELSE IF ~self.sign /\ other.sign THEN "Less"
    ELSE IF Len(self.num) > Len(other.num)
         THEN (IF self.sign THEN "Greater" ELSE "Less")
    ELSE IF Len(self.num) < Len(other.num)
         THEN (IF self.sign THEN "Less" ELSE "Greater")
    ELSE CmpDigits(self.num, other.num, self.sign)

\* the >= the division loop uses, derived from partial_cmp
BigNum_ge(self, other) == BigNum_partial_cmp(self, other) \in {"Greater", "Equal"}

BigNum_sub(self, other) == BigNum_add(self, BigNum_neg(other))

\* for &m in self.num.iter().rev(): one row of the schoolbook product
RECURSIVE MulRow(_, _, _, _, _)
MulRow(n, num, j, carry, temp) ==
    IF j = 0 THEN (IF carry > 0 THEN <<carry>> \o temp ELSE temp)
    ELSE LET product == (n * num[j] + carry) % 256
         IN  MulRow(n, num, j - 1, product \div 10, <<product % 10>> \o temp)

\* for (i, &n) in other.num.iter().rev().enumerate(): result += row
RECURSIVE MulLoop(_, _, _, _)
MulLoop(self, other, i, result) ==
    IF i = Len(other.num) THEN result
    ELSE LET n == other.num[Len(other.num) - i]
             temp == MulRow(n, self.num, Len(self.num), 0, [k \in 1..i |-> 0])
         IN  MulLoop(self, other, i + 1, BigNum_add(result, from(temp, TRUE)))

\* the product returned without looking at the signs
MulSign_ignored(differ, result) == result

\* if self.sign != other.sign { result.negate() }
MulSign(differ, result) == IF differ THEN negate(result) ELSE result

BigNum_mul(self, other) == MulSign(self.sign # other.sign, MulLoop(self, other, 0, zero))

\* while &remainder >= &other { remainder -= other; count += 1 }
RECURSIVE DivCount(_, _, _)
DivCount(remainder, other, count) ==
    IF BigNum_ge(remainder, other)
    THEN DivCount(BigNum_sub(remainder, other), other,
                  BigNum_add(count, from(<<1>>, TRUE)))
    ELSE [remainder |-> remainder, count |-> count]

\* for &n in &self_abs.num: one quotient digit per dividend digit
RECURSIVE DivLoop(_, _, _, _, _)
\* result = result * 10 + count, then the next dividend digit
DivNext(num, other, k, result, st) ==
    DivLoop(num, other, k + 1, st.remainder,
            BigNum_add(BigNum_mul(result, from(<<10>>, TRUE)), st.count))

\* remainder = remainder * 10 + n, then the repeated subtraction
DivLoop(num, other, k, remainder, result) ==
    IF k > Len(num) THEN result
    ELSE DivNext(num, other, k, result,
                 DivCount(BigNum_add(BigNum_mul(remainder, from(<<10>>, TRUE)),
                                     from(<<num[k]>>, TRUE)),
                          other, zero))

\* the steps of the same loop: the remainder and the count each dividend
\* digit leaves behind
RECURSIVE DivTrace(_, _, _, _)
TraceNext(num, other, k, st) == <<st>> \o DivTrace(num, other, k + 1, st.remainder)

DivTrace(num, other, k, remainder) ==
    IF k > Len(num) THEN <<>>
    ELSE TraceNext(num, other, k,
                   DivCount(BigNum_add(BigNum_mul(remainder, from(<<10>>, TRUE)),
                                       from(<<num[k]>>, TRUE)),
                            other, zero))

\* the sign set from the operand signs alone, a zero quotient included
DivSign_anyquotient(differ, result) == set_sign(result, ~differ)

\* if self.sign != other.sign && !result.is_zero() { set_sign(false) } else { set_sign(true) }
DivSign(differ, result) ==
    IF differ /\ ~is_zero(result) THEN set_sign(result, FALSE) ELSE set_sign(result, TRUE)

BigNum_div(self, other) ==
    IF is_zero(other) THEN Panic
    ELSE IF is_zero(self) THEN zero
    ELSE DivSign(self.sign # other.sign,
                 DivLoop(abs(self).num, abs(other), 1, zero, zero))

\* the remainder with the sign the subtraction gives it
RemOf_unsigned(self, other, q) ==
    IF IsPanic(q) THEN Panic ELSE BigNum_sub(self, BigNum_mul(q, other))

\* self - (self / other) * other with the sign of self, q being self / other
RemOf(self, other, q) ==
    IF IsPanic(q) THEN Panic
    ELSE set_sign(BigNum_sub(self, BigNum_mul(q, other)), self.sign)

BigNum_rem(self, other) == RemOf(self, other, BigNum_div(self, other))

\* while !b.is_zero() { temp = b; b = a % b; a = temp }
RECURSIVE GcdLoop(_, _)
GcdLoop(a, b) ==
    IF is_zero(b) THEN a ELSE GcdLoop(b, BigNum_rem(a, b))

\* gcd without the abs() of the two operands
gcd_signed(self, other) ==
    IF is_zero(self) /\ is_zero(other)
    THEN [err |-> "GCD of 2 zeroes is undefined"]
    ELSE IF is_zero(self) THEN [ok |-> other]
    ELSE IF is_zero(other) THEN [ok |-> self]
    ELSE [ok |-> GcdLoop(self, other)]

\* Ok(value), or Err(message) when both operands are zero
gcd(self, other) ==
    IF is_zero(self) /\ is_zero(other)
    THEN [err |-> "GCD of 2 zeroes is undefined"]
    ELSE IF is_zero(self) THEN [ok |-> abs(other)]
    ELSE IF is_zero(other) THEN [ok |-> abs(self)]
    ELSE [ok |-> GcdLoop(abs(self), abs(other))]


\* c.to_digit(10) on one character
DigitChars == <<"0", "1", "2", "3", "4", "5", "6", "7", "8", "9">>

to_digit(c) ==
    IF \E d \in 1..10 : DigitChars[d] = c
    THEN [some |-> (CHOOSE d \in 1..10 : DigitChars[d] = c) - 1]
    ELSE [none |-> TRUE]

\* chars.map(to_digit).collect::<Result<Vec<u32>, _>>(): Err at the first non-digit
RECURSIVE CollectDigits(_)
CollectDigits(chars) ==
    IF chars = <<>> THEN [ok |-> <<>>]
    ELSE LET d == to_digit(Head(chars))
         IN  IF "none" \in DOMAIN d THEN [err |-> "Invalid character"]
             ELSE LET rest == CollectDigits(Tail(chars))
                  IN  IF "err" \in DOMAIN rest THEN rest
                      ELSE [ok |-> <<d.some>> \o rest.ok]

BigNum_from_str(s) ==
    LET signed == s # <<>> /\ Head(s) \in {"-", "+"}
        sign == ~(s # <<>> /\ Head(s) = "-")
        digits == CollectDigits(IF signed THEN Tail(s) ELSE s)
    IN  IF "err" \in DOMAIN digits THEN digits
        ELSE IF digits.ok = <<>> THEN [err |-> "Invalid number format"]
        ELSE [ok |-> BigNum(sign, digits.ok)]

\* write!(f, "{}", n) for every digit, after "-" for a negative nonzero value
BigNum_fmt(x) ==
    (IF ~x.sign /\ ~is_zero(x) THEN <<"-">> ELSE <<>>)
        \o [i \in 1..Len(x.num) |-> DigitChars[x.num[i] + 1]]

(***************************************************************************)
(* frac.rs: Frac { numerator: BigNum, denominator: BigNum }.               *)
(***************************************************************************)
Frac(numerator, denominator) == [numerator |-> numerator, denominator |-> denominator]

\* if denominator.is_negative() { Frac { -numerator, -denominator } } else { ... }
SimplifySign(numerator, denominator) ==
    IF IsPanic(numerator) \/ IsPanic(denominator) THEN Panic
    ELSE IF is_negative(denominator)
    THEN Frac(BigNum_neg(numerator), BigNum_neg(denominator))
    ELSE Frac(numerator, denominator)

\* numerator / gcd and denominator / gcd, g being the result of gcd; the gcd
\* is used as a BigNum: its Err (both parts zero) ends the call
SimplifyBy(self, g) ==
    IF "err" \in DOMAIN g THEN Panic
    ELSE SimplifySign(BigNum_div(self.numerator, g.ok),
                      BigNum_div(self.denominator, g.ok))

\* simplify that returns the fraction as it was given
Frac_simplify_asgiven(self) == self

Frac_simplify(self) == SimplifyBy(self, gcd(self.numerator, self.denominator))

\* gcd == BigNum::from_str("1").unwrap(), g being the result of gcd
GcdIsOne(g) == "ok" \in DOMAIN g /\ BigNum_eq(g.ok, BigNum_from_str(<<"1">>).ok)

is_simplified(self) == GcdIsOne(gcd(self.numerator, self.denominator))

Frac_new(numerator, denominator) ==
    IF is_zero(denominator) THEN Panic
    ELSE Frac_simplify(Frac(numerator, denominator))

inverse(self) == Frac_new(self.denominator, self.numerator)

is_bignum(self) ==
    BigNum_eq(self.denominator, BigNum_from_str(<<"1">>).ok) \/ is_zero(self.numerator)

to_bignum(self) ==
    IF is_bignum(self) THEN [ok |-> self.numerator]
    ELSE [err |-> "Fraction cannot be converted to BigNum"]

\* impl IntoFrac for BigNum
to_frac(x) == Frac_new(x, one)

Frac_fmt(self) == BigNum_fmt(self.numerator) \o <<"/">> \o BigNum_fmt(self.denominator)

\* s.split('/').collect(): the parts of s between the '/' characters
RECURSIVE SplitLoop(_, _, _)
SplitLoop(s, parts, cur) ==
    IF s = <<>> THEN Append(parts, cur)
    ELSE IF Head(s) = "/" THEN SplitLoop(Tail(s), Append(parts, cur), <<>>)
    ELSE SplitLoop(Tail(s), parts, Append(cur, Head(s)))

\* the two parts parsed: the ? on each, the zero check, then Frac::new
FromNumbers(numerator, denominator) ==
    IF "err" \in DOMAIN numerator THEN numerator
    ELSE IF "err" \in DOMAIN denominator THEN denominator
    ELSE IF is_zero(denominator.ok) THEN [err |-> "Denominator cannot be zero"]
    ELSE Wrap(Frac_new(numerator.ok, denominator.ok))

FromParts(parts) ==
    IF Len(parts) # 2
    THEN [err |-> "Invalid fraction format. Expected format: numerator/denominator"]
    ELSE FromNumbers(BigNum_from_str(parts[1]), BigNum_from_str(parts[2]))

Frac_from_str(s) == FromParts(SplitLoop(s, <<>>, <<>>))

Frac_eq(self, other) ==
    /\ BigNum_eq(BigNum_mul(self.numerator, other.denominator),
                 BigNum_mul(self.denominator, other.numerator))
    /\ is_simplified(self)
    /\ is_simplified(other)

Frac_neg(self) == Frac_new(BigNum_neg(self.numerator), self.denominator)

\* In the four operators below the right operand may be the outcome of a
\* call that panicked (-other, other.inverse(), other.to_frac()); the panic
\* unwinds before the operator is entered.
Frac_add(self, other) ==
    IF IsPanic(other) THEN Panic
    ELSE Frac_new(BigNum_add(BigNum_mul(self.numerator, other.denominator),
                             BigNum_mul(self.denominator, other.numerator)),
                  BigNum_mul(self.denominator, other.denominator))

Frac_sub(self, other) ==
    IF IsPanic(other) THEN Panic ELSE Frac_add(self, Frac_neg(other))

Frac_mul(self, other) ==
    IF IsPanic(other) THEN Panic
    ELSE Frac_new(BigNum_mul(self.numerator, other.numerator),
                  BigNum_mul(self.denominator, other.denominator))

\* div that multiplies by other instead of its inverse
Frac_div_noinverse(self, other) ==
    IF IsPanic(other) THEN Panic ELSE Frac_mul(self, other)

Frac_div(self, other) ==
    IF IsPanic(other) THEN Panic ELSE Frac_mul(self, inverse(other))

\* impl Add<BigNum> / Sub<BigNum> / Mul<BigNum> / Div<BigNum> for Frac
Frac_add_BigNum(self, other) == Frac_add(self, to_frac(other))

Frac_sub_BigNum(self, other) == Frac_sub(self, to_frac(other))

Frac_mul_BigNum(self, other) == Frac_mul(self, to_frac(other))

Frac_div_BigNum(self, other) == Frac_div(self, to_frac(other))

(***************************************************************************)
(* common.rs: enum Value { Number(BigNum), Frac(Frac) }.                   *)
(***************************************************************************)
Value_Number(num) == [tag |-> "Number", num |-> num]

Value_Frac(frac) == [tag |-> "Frac", frac |-> frac]

\* match frac.to_bignum() { Ok(num) => Value::Number(num), Err(_) => self }
SimplifyTo(self, converted) ==
    IF "ok" \in DOMAIN converted THEN Value_Number(converted.ok) ELSE self

Value_simplify(self) ==
    IF self.tag = "Number" THEN self ELSE SimplifyTo(self, to_bignum(self.frac))

\* Value::Number(n).simplify() where computing n may have panicked
Wrap0(n) == IF IsPanic(n) THEN Panic ELSE Value_simplify(Value_Number(n))

\* Value::Frac(f).simplify() where computing f may have panicked
FracResult(f) == IF IsPanic(f) THEN Panic ELSE Value_simplify(Value_Frac(f))

\* Value::Frac(f) where computing f may have panicked
FracValue(f) == IF IsPanic(f) THEN Panic ELSE Value_Frac(f)

\* is_zero by comparison with BigNum::zero(), which the zero of negative
\* sign does not equal
Value_is_zero_by_eq(self) ==
    IF self.tag = "Number" THEN BigNum_eq(self.num, zero)
    ELSE BigNum_eq(self.frac.numerator, zero)

Value_is_zero(self) ==
    IF self.tag = "Number" THEN is_zero(self.num) ELSE is_zero(self.frac.numerator)

Value_fmt(self) ==
    IF self.tag = "Number" THEN BigNum_fmt(self.num) ELSE Frac_fmt(self.frac)

\* #[derive(PartialEq)]: same variant and equal payloads
Value_eq(self, other) ==
    /\ self.tag = other.tag
    /\ IF self.tag = "Number" THEN BigNum_eq(self.num, other.num)
       ELSE Frac_eq(self.frac, other.frac)

Value_neg(self) ==
    IF self.tag = "Number" THEN Value_Number(BigNum_neg(self.num))
    ELSE FracValue(Frac_neg(self.frac))

\* Value_add without the simplify() after the sum of two fractions
Value_add_nosimplify(self, other) ==
    IF self.tag = "Number" /\ other.tag = "Number"
    THEN Value_simplify(Value_Number(BigNum_add(self.num, other.num)))
    ELSE IF self.tag = "Frac" /\ other.tag = "Frac"
    THEN FracValue(Frac_add(self.frac, other.frac))
    ELSE IF self.tag = "Number"
    THEN FracResult(Frac_add_BigNum(other.frac, self.num))
    ELSE FracResult(Frac_add_BigNum(self.frac, other.num))

Value_add(self, other) ==
    IF self.tag = "Number" /\ other.tag = "Number"
    THEN Value_simplify(Value_Number(BigNum_add(self.num, other.num)))
    ELSE IF self.tag = "Frac" /\ other.tag = "Frac"
    THEN FracResult(Frac_add(self.frac, other.frac))
    ELSE IF self.tag = "Number"
    THEN FracResult(Frac_add_BigNum(other.frac, self.num))
    ELSE FracResult(Frac_add_BigNum(self.frac, other.num))

Value_sub(self, other) ==
    IF self.tag = "Number" /\ other.tag = "Number"
    THEN Value_simplify(Value_Number(BigNum_sub(self.num, other.num)))
    ELSE IF self.tag = "Frac" /\ other.tag = "Frac"
    THEN FracResult(Frac_sub(self.frac, other.frac))
    ELSE IF self.tag = "Number"
    THEN FracResult(Frac_sub_BigNum(other.frac, self.num))
    ELSE FracResult(Frac_sub_BigNum(self.frac, other.num))

Value_mul(self, other) ==
    IF self.tag = "Number" /\ other.tag = "Number"
    THEN Value_simplify(Value_Number(BigNum_mul(self.num, other.num)))
    ELSE IF self.tag = "Frac" /\ other.tag = "Frac"
    THEN FracResult(Frac_mul(self.frac, other.frac))
    ELSE IF self.tag = "Number"
    THEN FracResult(Frac_mul_BigNum(other.frac, self.num))
    ELSE FracResult(Frac_mul_BigNum(self.frac, other.num))

\* Value_div that divides two Numbers without looking at the remainder
Value_div_truncating(self, other) ==
    IF self.tag = "Number" /\ other.tag = "Number"
    THEN Wrap0(BigNum_div(self.num, other.num))
    ELSE IF self.tag = "Frac" /\ other.tag = "Frac"
    THEN FracResult(Frac_div(self.frac, other.frac))
    ELSE IF self.tag = "Number"
    THEN FracResult(Frac_div_BigNum(other.frac, self.num))
    ELSE FracResult(Frac_div_BigNum(self.frac, other.num))

\* if left % right == BigNum::zero() { Number(left / right) } else
\* { Frac(Frac::new(left, right)) }, r being left % right
DivNumbers(left, right, r) ==
    IF IsPanic(r) THEN Panic
    ELSE IF BigNum_eq(r, zero)
    THEN Value_simplify(Value_Number(BigNum_div(left, right)))
    ELSE FracResult(Frac_new(left, right))

Value_div(self, other) ==
    IF self.tag = "Number" /\ other.tag = "Number"
    THEN DivNumbers(self.num, other.num, BigNum_rem(self.num, other.num))
    ELSE IF self.tag = "Frac" /\ other.tag = "Frac"
    THEN FracResult(Frac_div(self.frac, other.frac))
    ELSE IF self.tag = "Number"
    THEN FracResult(Frac_div_BigNum(other.frac, self.num))
    ELSE FracResult(Frac_div_BigNum(self.frac, other.num))

\* if let Ok(num) = BigNum::from_str(s) { Ok(Value::Number(num).simplify()) },
\* parsed being the result of BigNum::from_str.  The texts given to it here
\* are the digit runs of the lexer: they hold no '/', so Frac::from_str
\* splits them into one part, returns Err, and the outcome is Err(()).
NumberFrom(parsed) ==
    IF "ok" \in DOMAIN parsed
    THEN [ok |-> Value_simplify(Value_Number(parsed.ok))]
    ELSE [err |-> "()"]

Value_from_str(s) == NumberFrom(BigNum_from_str(s))

(***************************************************************************)
(* parser.rs: tokens, the lexer, the recursive-descent parser and the      *)
(* evaluator.  Text is a sequence of one-character strings.                *)
(***************************************************************************)
Token_Plus == [kind |-> "Plus"]

Token_Dash == [kind |-> "Dash"]

Token_Star == [kind |-> "Star"]

Token_Slash == [kind |-> "Slash"]

\* the lexer pushes RightParen for '(' and LeftParen for ')'
Token_RightParen == [kind |-> "RightParen"]

Token_LeftParen == [kind |-> "LeftParen"]

Token_End == [kind |-> "End"]

Token_Number(value) == [kind |-> "Number", value |-> value]

\* struct SyntaxError { message, level }; the formatted detail of a message
\* (the token or character it names) is kept in a field of its own
new_lex_error(message, ch) == [level |-> "Lex", message |-> message, detail |-> ch]

new_parse_error(message) == [level |-> "Parse", message |-> message, detail |-> ""]

is_ascii_digit(c) == "some" \in DOMAIN to_digit(c)

\* a take_while whose closure forgets the character that ended the run
RECURSIVE TakeDigits_dropping(_, _, _)
TakeDigits_dropping(code, pos, run) ==
    IF pos > Len(code) THEN [run |-> run, pos |-> pos, leftover |-> <<>>]
    ELSE IF is_ascii_digit(code[pos])
    THEN TakeDigits_dropping(code, pos + 1, Append(run, code[pos]))
    ELSE [run |-> run, pos |-> pos + 1, leftover |-> <<>>]

\* iter.by_ref().take_while(is_ascii_digit): the digits read, the position
\* of the iterator afterwards, and the character that ended the run, which
\* take_while has consumed and the closure has put in leftover
RECURSIVE TakeDigits(_, _, _)
TakeDigits(code, pos, run) ==
    IF pos > Len(code) THEN [run |-> run, pos |-> pos, leftover |-> <<>>]
    ELSE IF is_ascii_digit(code[pos]) THEN TakeDigits(code, pos + 1, Append(run, code[pos]))
    ELSE [run |-> run, pos |-> pos + 1, leftover |-> <<code[pos]>>]

\* the loop of lex: pos is the next character of iter, leftover is <<>> for None
RECURSIVE LexLoop(_, _, _, _)
LexLoop(code, pos, leftover, tokens) ==
    IF leftover = <<>> /\ pos > Len(code) THEN [ok |-> Append(tokens, Token_End)]
    ELSE LET ch == IF leftover # <<>> THEN leftover[1] ELSE code[pos]
             p == IF leftover # <<>> THEN pos ELSE pos + 1
         IN  IF ch = " " THEN LexLoop(code, p, <<>>, tokens)
             ELSE IF ch = "+" THEN LexLoop(code, p, <<>>, Append(tokens, Token_Plus))
             ELSE IF ch = "*" THEN LexLoop(code, p, <<>>, Append(tokens, Token_Star))
             ELSE IF ch = "/" THEN LexLoop(code, p, <<>>, Append(tokens, Token_Slash))
             ELSE IF ch = ")" THEN LexLoop(code, p, <<>>, Append(tokens, Token_LeftParen))
             ELSE IF ch = "(" THEN LexLoop(code, p, <<>>, Append(tokens, Token_RightParen))
             ELSE IF ch = "-" THEN LexLoop(code, p, <<>>, Append(tokens, Token_Dash))
             ELSE IF is_ascii_digit(ch)
             THEN LET t == TakeDigits(code, p, <<>>)
                      number == Value_from_str(<<ch>> \o t.run)
                  IN  IF "err" \in DOMAIN number THEN Panic
                      ELSE LexLoop(code, t.pos, t.leftover,
                                   Append(tokens, Token_Number(number.ok)))
             ELSE [err |-> new_lex_error("Unrecognized character", ch)]

lex(code) == LexLoop(code, 1, <<>>, <<>>)

\* enum Expr
BinExpr(op, left, right) == [tag |-> "BinExpr", op |-> op, left |-> left, right |-> right]

UnaryExpr(op, expr) == [tag |-> "UnaryExpr", op |-> op, expr |-> expr]

ValExrp(value) == [tag |-> "ValExrp", value |-> value]

\* A parser method returns Panic, or its Result with the position of iter
\* (the index of the token next() would return) after the call.
PRes(res, pos) == [res |-> res, pos |-> pos]

assert_next(tokens, pos, token) ==
    IF pos > Len(tokens)
    THEN PRes([err |-> new_parse_error("Unexpected end of input")], pos)
    ELSE IF tokens[pos] # token
    THEN PRes([err |-> new_parse_error("Expected token")], pos + 1)
    ELSE PRes([ok |-> TRUE], pos + 1)

RECURSIVE primary(_, _), factor(_, _), term(_, _), expression(_, _),
          TermLoop(_, _, _), ExpressionLoop(_, _, _)


\* the ? operator: a panic or an Err(..) ends the calling method
Failed(r) == IF IsPanic(r) THEN TRUE ELSE "err" \in DOMAIN r.res

\* the expression e once assert_next has looked for the token that closes it
Asserted(e, a) == IF "err" \in DOMAIN a.res THEN a ELSE PRes(e.res, a.pos)

\* let expr = self.expression()?; self.assert_next(Token::LeftParen)?; Ok(expr)
Parenthesized(tokens, e) ==
    IF Failed(e) THEN e ELSE Asserted(e, assert_next(tokens, e.pos, Token_LeftParen))

\* let expr = self.factor()?; Ok(Expr::UnaryExpr { op: Negative, expr })
Negated(e) ==
    IF Failed(e) THEN e ELSE PRes([ok |-> UnaryExpr("Negative", e.res.ok)], e.pos)

primary(tokens, pos) ==
    IF pos > Len(tokens) THEN Panic
    ELSE IF tokens[pos].kind = "Number"
    THEN PRes([ok |-> ValExrp(tokens[pos].value)], pos + 1)
    ELSE IF tokens[pos].kind = "RightParen"
    THEN Parenthesized(tokens, expression(tokens, pos + 1))
    ELSE IF tokens[pos].kind = "Dash"
    THEN Negated(factor(tokens, pos + 1))
    ELSE PRes([err |-> new_parse_error("Unexpected token")], pos + 1)

factor(tokens, pos) == primary(tokens, pos)

\* let rhs = self.factor()?; expr = Expr::BinExpr { left: expr, op, right: rhs }
TermNext(tokens, expr, op, rhs) ==
    IF Failed(rhs) THEN rhs
    ELSE TermLoop(tokens, rhs.pos, BinExpr(op, expr, rhs.res.ok))

\* the loop of term: expr is the operand built so far
TermLoop(tokens, pos, expr) ==
    IF pos > Len(tokens) THEN Panic
    ELSE IF tokens[pos].kind = "Star"
    THEN TermNext(tokens, expr, "Multiply", factor(tokens, pos + 1))
    ELSE IF tokens[pos].kind = "Slash"
    THEN TermNext(tokens, expr, "Divide", factor(tokens, pos + 1))
    ELSE PRes([ok |-> expr], pos)

\* let mut expr = self.factor()?, then the loop
TermFrom(tokens, e) == IF Failed(e) THEN e ELSE TermLoop(tokens, e.pos, e.res.ok)

term(tokens, pos) == TermFrom(tokens, factor(tokens, pos))

\* let rhs = self.term()?; expr = Expr::BinExpr { left: expr, op, right: rhs }
ExpressionNext(tokens, expr, op, rhs) ==
    IF Failed(rhs) THEN rhs
    ELSE ExpressionLoop(tokens, rhs.pos, BinExpr(op, expr, rhs.res.ok))

\* the loop of expression with the right operand parsed by expression, which
\* groups + and - to the right
ExpressionLoop_rightassoc(tokens, pos, expr) ==
    IF pos > Len(tokens) THEN Panic
    ELSE IF tokens[pos].kind = "Plus"
    THEN ExpressionNext(tokens, expr, "Add", expression(tokens, pos + 1))
    ELSE IF tokens[pos].kind = "Dash"
    THEN ExpressionNext(tokens, expr, "Subtract", expression(tokens, pos + 1))
    ELSE PRes([ok |-> expr], pos)

\* the loop of expression: expr is the operand built so far
ExpressionLoop(tokens, pos, expr) ==
    IF pos > Len(tokens) THEN Panic
    ELSE IF tokens[pos].kind = "Plus"
    THEN ExpressionNext(tokens, expr, "Add", term(tokens, pos + 1))
    ELSE IF tokens[pos].kind = "Dash"
    THEN ExpressionNext(tokens, expr, "Subtract", term(tokens, pos + 1))
    ELSE PRes([ok |-> expr], pos)

\* let mut expr = self.term()?, then the loop
ExpressionFrom(tokens, e) ==
    IF Failed(e) THEN e ELSE ExpressionLoop(tokens, e.pos, e.res.ok)

expression(tokens, pos) == ExpressionFrom(tokens, term(tokens, pos))

\* let ast = self.expression()?; self.assert_next(Token::End)?; Ok(ast)
ParseEnd(tokens, e) ==
    IF Failed(e) THEN e ELSE Asserted(e, assert_next(tokens, e.pos, Token_End))

\* parse without the End assertion after the expression
parse_noend(tokens) == expression(tokens, 1)

parse(tokens) == ParseEnd(tokens, expression(tokens, 1))

\* Expr::eval returns Panic, Ok(value) or Err(SyntaxError).  With it goes the
\* trace of the call: one "eval" event per node entered and one "div" event
\* per Value division, each with the path of its node from the root.
ERes(res, trace) == [res |-> res, trace |-> trace]

Event(ev, at) == [ev |-> ev, at |-> at]

IsOk(res) == ~IsPanic(res) /\ "ok" \in DOMAIN res

RECURSIVE eval(_, _)
eval(self, at) ==
    LET enter == <<Event("eval", at)>>
    IN  IF self.tag = "ValExrp" THEN ERes([ok |-> self.value], enter)
        ELSE IF self.tag = "UnaryExpr" /\ self.op = "Negative"
        THEN LET e == eval(self.expr, Append(at, "U"))
             IN  IF ~IsOk(e.res) THEN ERes(e.res, enter \o e.trace)
                 ELSE ERes(Wrap(Value_neg(e.res.ok)), enter \o e.trace)
        ELSE IF self.tag = "BinExpr" /\ self.op \in {"Add", "Subtract", "Multiply"}
        THEN LET l == eval(self.left, Append(at, "L"))
             IN  IF ~IsOk(l.res) THEN ERes(l.res, enter \o l.trace)
                 ELSE LET r == eval(self.right, Append(at, "R"))
                      IN  IF ~IsOk(r.res) THEN ERes(r.res, enter \o l.trace \o r.trace)
                          ELSE ERes(Wrap(IF self.op = "Add"
                                         THEN Value_add(l.res.ok, r.res.ok)
                                         ELSE IF self.op = "Subtract"
                                         THEN Value_sub(l.res.ok, r.res.ok)
                                         ELSE Value_mul(l.res.ok, r.res.ok)),
                                    enter \o l.trace \o r.trace)
        ELSE IF self.tag = "BinExpr" /\ self.op = "Divide"
        THEN LET r == eval(self.right, Append(at, "R"))
             IN  IF ~IsOk(r.res) THEN ERes(r.res, enter \o r.trace)
                 ELSE IF Value_is_zero(r.res.ok)
                 THEN ERes([err |-> new_parse_error("Division by Zero")], enter \o r.trace)
                 ELSE LET l == eval(self.left, Append(at, "L"))
                      IN  IF ~IsOk(l.res) THEN ERes(l.res, enter \o r.trace \o l.trace)
                          ELSE ERes(Wrap(Value_div(l.res.ok, r.res.ok)),
                                    enter \o r.trace \o l.trace \o <<Event("div", at)>>)
        ELSE ERes([err |-> new_parse_error("Unreachable code")], enter)

(***************************************************************************)
(* State.  The crate keeps no state between calls; each specification      *)
(* below drives one layer of it and leaves the other variables idle.       *)
(***************************************************************************)
VARIABLES
    bigA, bigB,       \* SpecBig: the two BigNum operands
    bigAcc,           \* SpecBig: the running result, bigA at first
    bigHist,          \* SpecBig: the operators applied so far
    bigGcd,           \* SpecBig: what gcd returned for the result and bigB
    bigCmp,           \* SpecBig: how the result compared with bigB
    valL, valR,       \* SpecValue: the operands of the Value operator
    valOp,            \* SpecValue: the operator applied last, "none" before
    valRes,           \* SpecValue: its result
    valN,             \* SpecValue: how often a result was fed back
    input,            \* SpecEval: the text given to eval_to_string
    origin,           \* SpecEval: the expression tree the text was written from
    pc,               \* SpecEval: the step eval_to_string is at
    tokens,           \* SpecEval: the token vector lex returned
    ast,              \* SpecEval: the Expr parse returned
    parsePos,         \* SpecEval: the position of the token iterator after parse
    evalTrace,        \* SpecEval: the nodes entered and divisions made by eval
    output,           \* SpecEval: what eval_to_string returned
    fracArgs,         \* SpecFrac: the arguments the two fractions were built from
    fracL, fracR,     \* SpecFrac: the two fractions Frac::new returned
    fracOp,           \* SpecFrac: the operation applied, "none" before
    fracRes           \* SpecFrac: its result

bigVars == <<bigA, bigB, bigAcc, bigHist, bigGcd, bigCmp>>

valVars == <<valL, valR, valOp, valRes, valN>>

evalVars == <<input, origin, pc, tokens, ast, parsePos, evalTrace, output>>

fracVars == <<fracArgs, fracL, fracR, fracOp, fracRes>>

vars == <<bigA, bigB, bigAcc, bigHist, bigGcd, bigCmp, valL, valR, valOp, valRes, valN,
          input, origin, pc, tokens, ast, parsePos, evalTrace, output,
          fracArgs, fracL, fracR, fracOp, fracRes>>

\* nothing returned yet
NoOutput == [none |-> TRUE]

BigIdle ==
    /\ bigA = zero
    /\ bigB = zero
    /\ bigAcc = zero
    /\ bigHist = <<>>
    /\ bigGcd = NoOutput
    /\ bigCmp = NoOutput

ValIdle ==
    /\ valL = Value_Number(zero)
    /\ valR = Value_Number(zero)
    /\ valOp = "none"
    /\ valRes = Value_Number(zero)
    /\ valN = 0

\* no expression tree: the text is arbitrary, or nothing was parsed
NoExpr == [tag |-> "None"]

EvalIdle ==
    /\ input = <<>>
    /\ origin = NoExpr
    /\ pc = "idle"
    /\ tokens = <<>>
    /\ ast = NoExpr
    /\ parsePos = 0
    /\ evalTrace = <<>>
    /\ output = NoOutput

FracIdle ==
    /\ fracArgs = <<>>
    /\ fracL = Frac(zero, one)
    /\ fracR = Frac(zero, one)
    /\ fracOp = "idle"
    /\ fracRes = NoOutput

(***************************************************************************)
(* SpecBig: canonical BigNum operands drawn from a bounded set, and the    *)
(* operators applied to them one after another (acc = acc op bigB).        *)
(***************************************************************************)
RECURSIVE DigitVecs(_)
DigitVecs(n) ==
    IF n = 0 THEN {<<>>}
    ELSE {<<d>> \o v : d \in InputDigits, v \in DigitVecs(n - 1)}

\* the BigInt invariant of the data model
Canonical(x) ==
    /\ Len(x.num) >= 1
    /\ \A i \in 1..Len(x.num) : x.num[i] \in 0..9
    /\ (Len(x.num) > 1 => x.num[1] # 0)
    /\ (is_zero(x) => x.sign)

\* what BigNum::from builds from at most MaxDigits digits and a sign
BigInputs ==
    {from(v, s) : s \in BOOLEAN, v \in UNION {DigitVecs(n) : n \in 1..MaxDigits}}

InitBig ==
    /\ bigA \in BigInputs
    /\ bigB \in BigInputs
    /\ bigAcc = bigA
    /\ bigHist = <<>>
    /\ bigGcd = NoOutput
    /\ bigCmp = NoOutput
    /\ ValIdle
    /\ EvalIdle
    /\ FracIdle

BigStep(op, res) ==
    /\ Len(bigHist) < MaxBigOps
    /\ ~IsPanic(bigAcc)
    /\ bigGcd = NoOutput
    /\ bigCmp = NoOutput
    /\ bigAcc' = res
    /\ bigHist' = Append(bigHist, op)
    /\ UNCHANGED <<bigA, bigB, bigGcd, bigCmp>>
    /\ UNCHANGED <<valVars, evalVars, fracVars>>

BigAdd == BigStep("add", BigNum_add(bigAcc, bigB))

BigSub == BigStep("sub", BigNum_sub(bigAcc, bigB))

BigMul == BigStep("mul", BigNum_mul(bigAcc, bigB))

BigDiv == BigStep("div", BigNum_div(bigAcc, bigB))

BigRem == BigStep("rem", BigNum_rem(bigAcc, bigB))

BigNeg == BigStep("neg", BigNum_neg(bigAcc))

\* acc.gcd(&b), after which the behaviour ends
BigGcd ==
    /\ ~IsPanic(bigAcc)
    /\ bigGcd = NoOutput
    /\ bigCmp = NoOutput
    /\ bigGcd' = gcd(bigAcc, bigB)
    /\ UNCHANGED <<bigA, bigB, bigAcc, bigHist, bigCmp>>
    /\ UNCHANGED <<valVars, evalVars, fracVars>>

\* acc.partial_cmp(&b) and acc == b, after which the behaviour ends
BigCmp ==
    /\ ~IsPanic(bigAcc)
    /\ bigGcd = NoOutput
    /\ bigCmp = NoOutput
    /\ bigCmp' = [ord |-> BigNum_partial_cmp(bigAcc, bigB),
                  eq |-> BigNum_eq(bigAcc, bigB)]
    /\ UNCHANGED <<bigA, bigB, bigAcc, bigHist, bigGcd>>
    /\ UNCHANGED <<valVars, evalVars, fracVars>>

NextBig ==
    BigAdd \/ BigSub \/ BigMul \/ BigDiv \/ BigRem \/ BigNeg \/ BigGcd \/ BigCmp

SpecBig == InitBig /\ [][NextBig]_vars

(***************************************************************************)
(* SpecValue: the Value operators of common.rs applied to values the       *)
(* evaluator can hold: lexed literals, their negations and quotients, and  *)
(* results fed back as operands.                                           *)
(***************************************************************************)
RECURSIVE LitTexts(_)
LitTexts(n) ==
    IF n = 0 THEN {<<>>}
    ELSE {<<c>> \o t : c \in LitChars, t \in LitTexts(n - 1)}

\* the Number tokens lex makes of digit runs of at most MaxLitLen characters
Literals ==
    {Value_from_str(t).ok : t \in UNION {LitTexts(n) : n \in 1..MaxLitLen}}

\* the literals of one digit, from which the fractions below are made
Literals1 == {Value_from_str(t).ok : t \in LitTexts(1)}

Quotients == {Value_div(x, y) : x \in Literals1, y \in {z \in Literals1 : ~Value_is_zero(z)}}

ValueInputs ==
    Literals \cup Quotients \cup {Value_neg(x) : x \in Literals1 \cup Quotients}

InitValue ==
    /\ valL \in ValueInputs
    /\ valR \in ValueInputs
    /\ valOp = "none"
    /\ valRes = valL
    /\ valN = 0
    /\ BigIdle
    /\ EvalIdle
    /\ FracIdle

ValStep(op, res) ==
    /\ valOp = "none"
    /\ valOp' = op
    /\ valRes' = res
    /\ UNCHANGED <<valL, valR, valN>>
    /\ UNCHANGED <<bigVars, evalVars, fracVars>>

ValNeg == ValStep("neg", Value_neg(valL))

ValAdd == ValStep("add", Value_add(valL, valR))

ValSub == ValStep("sub", Value_sub(valL, valR))

ValMul == ValStep("mul", Value_mul(valL, valR))

\* Expr::eval divides only after it has seen a nonzero right operand
ValDiv == ~Value_is_zero(valR) /\ ValStep("div", Value_div(valL, valR))

\* the result becomes the left operand of the next operator
ValFeedLeft ==
    /\ valOp # "none"
    /\ ~IsPanic(valRes)
    /\ valN < MaxValOps
    /\ valL' = valRes
    /\ valOp' = "none"
    /\ valN' = valN + 1
    /\ UNCHANGED <<valR, valRes>>
    /\ UNCHANGED <<bigVars, evalVars, fracVars>>

\* the result becomes the right operand of the next operator
ValFeedRight ==
    /\ valOp # "none"
    /\ ~IsPanic(valRes)
    /\ valN < MaxValOps
    /\ valR' = valRes
    /\ valOp' = "none"
    /\ valN' = valN + 1
    /\ UNCHANGED <<valL, valRes>>
    /\ UNCHANGED <<bigVars, evalVars, fracVars>>

NextValue ==
    ValNeg \/ ValAdd \/ ValSub \/ ValMul \/ ValDiv \/ ValFeedLeft \/ ValFeedRight

SpecValue == InitValue /\ [][NextValue]_vars

(***************************************************************************)
(* SpecEval: eval_to_string on one input text, step by step: lex, parse,   *)
(* eval and to_string.  The text is either written from an expression tree *)
(* by the grammar at the head of parser.rs, or arbitrary and short.        *)
(***************************************************************************)
BinOps == {"Add", "Subtract", "Multiply", "Divide"}

\* the expression trees of exactly n nodes over one-digit literals
RECURSIVE ExprsOfSize(_)
ExprsOfSize(n) ==
    IF n = 1 THEN {ValExrp(v) : v \in Literals1}
    ELSE {UnaryExpr("Negative", e) : e \in ExprsOfSize(n - 1)}
         \cup UNION {{BinExpr(op, l, r) :
                          op \in BinOps, l \in ExprsOfSize(k), r \in ExprsOfSize(n - 1 - k)}
                     : k \in 1..(n - 2)}

Exprs == UNION {ExprsOfSize(n) : n \in 1..MaxNodes}

OpChar(op) ==
    IF op = "Add" THEN "+" ELSE IF op = "Subtract" THEN "-"
    ELSE IF op = "Multiply" THEN "*" ELSE "/"

\* The text of a tree, by the grammar: E -> T { ("+" | "-") T },
\* T -> F { ("*" | "/") F }, F -> value | "-" F | "(" E ")".
RECURSIVE WriteE(_), WriteT(_), WriteF(_)
WriteE(e) ==
    IF e.tag = "BinExpr" /\ e.op \in {"Add", "Subtract"}
    THEN WriteE(e.left) \o <<OpChar(e.op)>> \o WriteT(e.right)
    ELSE WriteT(e)

WriteT(e) ==
    IF e.tag = "BinExpr" /\ e.op \in {"Multiply", "Divide"}
    THEN WriteT(e.left) \o <<OpChar(e.op)>> \o WriteF(e.right)
    ELSE WriteF(e)

WriteF(e) ==
    IF e.tag = "ValExrp" THEN Value_fmt(e.value)
    ELSE IF e.tag = "UnaryExpr" THEN <<"-">> \o WriteF(e.expr)
    ELSE <<"(">> \o WriteE(e) \o <<")">>

RECURSIVE TextsOfLen(_)
TextsOfLen(n) ==
    IF n = 0 THEN {<<>>}
    ELSE {<<c>> \o t : c \in TextChars, t \in TextsOfLen(n - 1)}

ShortTexts == UNION {TextsOfLen(n) : n \in 0..MaxTextLen}

InitEval ==
    /\ \/ origin \in Exprs /\ input = WriteE(origin)
       \/ origin = NoExpr /\ input \in ShortTexts
    /\ pc = "lex"
    /\ tokens = <<>>
    /\ ast = NoExpr
    /\ parsePos = 0
    /\ evalTrace = <<>>
    /\ output = NoOutput
    /\ BigIdle
    /\ ValIdle
    /\ FracIdle

\* let tokens = lex(input)?
Lexed(r) ==
    IF IsPanic(r)
    THEN pc' = "done" /\ output' = Panic /\ UNCHANGED tokens
    ELSE IF "err" \in DOMAIN r
    THEN pc' = "done" /\ output' = [err |-> r.err] /\ UNCHANGED tokens
    ELSE pc' = "parse" /\ tokens' = r.ok /\ UNCHANGED output

Lex ==
    /\ pc = "lex"
    /\ Lexed(lex(input))
    /\ UNCHANGED <<input, origin, ast, parsePos, evalTrace>>
    /\ UNCHANGED <<bigVars, valVars, fracVars>>

\* let mut result = parser.parse()?
Parsed(r) ==
    IF IsPanic(r)
    THEN pc' = "done" /\ output' = Panic /\ UNCHANGED <<ast, parsePos>>
    ELSE IF "err" \in DOMAIN r.res
    THEN /\ pc' = "done" /\ output' = [err |-> r.res.err]
         /\ parsePos' = r.pos /\ UNCHANGED ast
    ELSE /\ pc' = "eval" /\ ast' = r.res.ok /\ parsePos' = r.pos
         /\ UNCHANGED output

Parse ==
    /\ pc = "parse"
    /\ Parsed(parse(tokens))
    /\ UNCHANGED <<input, origin, tokens, evalTrace>>
    /\ UNCHANGED <<bigVars, valVars, fracVars>>

\* Ok(result.eval().map(|val| val.to_string())?)
Evaluated(r) ==
    /\ evalTrace' = r.trace
    /\ output' = IF IsPanic(r.res) THEN Panic
                 ELSE IF "err" \in DOMAIN r.res THEN [err |-> r.res.err]
                 ELSE [ok |-> Value_fmt(r.res.ok)]

Evaluate ==
    /\ pc = "eval"
    /\ Evaluated(eval(ast, <<>>))
    /\ pc' = "done"
    /\ UNCHANGED <<input, origin, tokens, ast, parsePos>>
    /\ UNCHANGED <<bigVars, valVars, fracVars>>

NextEval == Lex \/ Parse \/ Evaluate

SpecEval == InitEval /\ [][NextEval]_vars

(***************************************************************************)
(* SpecFrac: two fractions built by Frac::new from canonical numerators    *)
(* and nonzero denominators of either sign, and one operation of frac.rs   *)
(* applied to them.                                                        *)
(***************************************************************************)
RECURSIVE FracDigitVecs(_)
FracDigitVecs(n) ==
    IF n = 0 THEN {<<>>}
    ELSE {<<d>> \o v : d \in FracDigits, v \in FracDigitVecs(n - 1)}

\* what BigNum::from builds from at most MaxFracDigits digits and a sign
FracInts ==
    {from(v, s) : s \in BOOLEAN, v \in UNION {FracDigitVecs(n) : n \in 1..MaxFracDigits}}

InitFrac ==
    /\ fracArgs \in {<<n1, d1, n2, d2>> :
                        n1 \in FracInts, d1 \in {d \in FracInts : ~is_zero(d)},
                        n2 \in FracInts, d2 \in {d \in FracInts : ~is_zero(d)}}
    /\ fracL = Frac_new(fracArgs[1], fracArgs[2])
    /\ fracR = Frac_new(fracArgs[3], fracArgs[4])
    /\ fracOp = "none"
    /\ fracRes = NoOutput
    /\ BigIdle
    /\ ValIdle
    /\ EvalIdle

FracStep(op, res) ==
    /\ fracOp = "none"
    /\ fracOp' = op
    /\ fracRes' = res
    /\ UNCHANGED <<fracArgs, fracL, fracR>>
    /\ UNCHANGED <<bigVars, valVars, evalVars>>

FracNeg == FracStep("neg", Frac_neg(fracL))

FracInverse == FracStep("inverse", inverse(fracL))

FracAdd == FracStep("add", Frac_add(fracL, fracR))

FracSub == FracStep("sub", Frac_sub(fracL, fracR))

FracMul == FracStep("mul", Frac_mul(fracL, fracR))

FracDiv == FracStep("div", Frac_div(fracL, fracR))

\* fracL == fracR
FracEq == FracStep("eq", [eq |-> Frac_eq(fracL, fracR)])

\* fracL.to_string().parse::<Frac>()
FracParse == FracStep("parse", Frac_from_str(Frac_fmt(fracL)))

NextFrac ==
    FracNeg \/ FracInverse \/ FracAdd \/ FracSub \/ FracMul \/ FracDiv \/ FracEq
        \/ FracParse

SpecFrac == InitFrac /\ [][NextFrac]_vars

(***************************************************************************)
(* The integers the representations denote, for stating the claims.        *)
(***************************************************************************)
RECURSIVE DigitsValue(_)
DigitsValue(num) ==
    IF num = <<>> THEN 0
    ELSE 10 * DigitsValue(SubSeq(num, 1, Len(num) - 1)) + num[Len(num)]

ToInt(x) == IF x.sign THEN DigitsValue(x.num) ELSE 0 - DigitsValue(x.num)

RECURSIVE NatDigits(_)
NatDigits(n) ==
    IF n < 10 THEN <<n>> ELSE Append(NatDigits(n \div 10), n % 10)

\* the canonical BigNum of an integer
FromInt(i) == IF i < 0 THEN BigNum(FALSE, NatDigits(0 - i)) ELSE BigNum(TRUE, NatDigits(i))

IntAbs(i) == IF i < 0 THEN 0 - i ELSE i

\* the decimal text of an integer
IntText(i) ==
    (IF i < 0 THEN <<"-">> ELSE <<>>)
        \o [k \in 1..Len(NatDigits(IntAbs(i))) |-> DigitChars[NatDigits(IntAbs(i))[k] + 1]]

RECURSIVE IntGcd(_, _)
IntGcd(a, b) == IF b = 0 THEN a ELSE IntGcd(b, a % b)

(***************************************************************************)
(* Claims about the Value operators (SpecValue).                           *)
(***************************************************************************)

\* C1: for an Integer a and a Fraction f, the Value subtraction a - f equals
\* Fraction(a, 1) - f, the integer promoted and kept as the minuend.
C1_SubPromotesInOrder ==
    (valOp = "sub" /\ valL.tag = "Number" /\ Canonical(valL.num) /\ valR.tag = "Frac")
        => /\ ~IsPanic(valRes)
           /\ Value_eq(valRes, FracResult(Frac_sub(to_frac(valL.num), valR.frac)))

\* C2: for an Integer a and a nonzero Fraction f, the Value division a / f
\* equals Fraction(a, 1) / f, the integer promoted and kept as the dividend.
C2_DivPromotesInOrder ==
    (valOp = "div" /\ valL.tag = "Number" /\ Canonical(valL.num) /\ valR.tag = "Frac")
        => /\ ~IsPanic(valRes)
           /\ Value_eq(valRes, FracResult(Frac_div(to_frac(valL.num), valR.frac)))

\* C6: for integers a and b # 0 of either sign, Integer(a) / Integer(b) is
\* Integer(a/b) when b divides a, and otherwise the Fraction a/b in lowest
\* terms with a positive denominator.
C6_IntegerDivision ==
    (/\ valOp = "div" /\ valL.tag = "Number" /\ valR.tag = "Number"
     /\ Canonical(valL.num) /\ Canonical(valR.num))
        => LET a == ToInt(valL.num)
               b == ToInt(valR.num)
               g == IntGcd(IntAbs(a), IntAbs(b))
               s == IF (a < 0) = (b < 0) THEN 1 ELSE 0 - 1
           IN  IF IntAbs(a) % IntAbs(b) = 0
               THEN /\ valRes = Value_Number(FromInt(s * (IntAbs(a) \div IntAbs(b))))
                    /\ Value_fmt(valRes) = IntText(s * (IntAbs(a) \div IntAbs(b)))
               ELSE /\ valRes = Value_Frac(Frac(FromInt(s * (IntAbs(a) \div g)),
                                                FromInt(IntAbs(b) \div g)))
                    /\ Value_fmt(valRes) = IntText(s * (IntAbs(a) \div g)) \o <<"/">>
                                               \o IntText(IntAbs(b) \div g)

\* C6 witness: 3 was divided by -2 and the result is the fraction -3/2.
C6_Witness ==
    /\ valOp = "div" /\ valL.tag = "Number" /\ valR.tag = "Number"
    /\ Canonical(valL.num) /\ Canonical(valR.num)
    /\ ToInt(valL.num) = 3 /\ ToInt(valR.num) = 0 - 2
    /\ Value_fmt(valRes) = <<"-", "3", "/", "2">>

IsCollapsed(v) ==
    IsPanic(v) \/ v.tag = "Number"
        \/ (/\ ~BigNum_eq(v.frac.denominator, one)
            /\ ToInt(v.frac.denominator) # 1
            /\ ~is_zero(v.frac.numerator))

\* C10: after any sequence of Value operations on lexed literals, every
\* Fraction variant has denominator # 1 and numerator # 0.
C10_FractionsAreNotIntegral ==
    IsCollapsed(valL) /\ IsCollapsed(valR) /\ IsCollapsed(valRes)

\* C10 witness: two fractions were added and the sum collapsed to an Integer.
C10_Witness ==
    /\ valOp = "add" /\ valL.tag = "Frac" /\ valR.tag = "Frac"
    /\ valRes.tag = "Number"

(***************************************************************************)
(* Claims about BigNum arithmetic (SpecBig).                               *)
(***************************************************************************)

\* C4: for every canonical a, a - a is canonical zero, and adding operands
\* of different signs and equal magnitude gives zero with positive sign.
C4_SelfSubtractionIsZero ==
    /\ (bigHist = <<"sub">> /\ bigA = bigB) => BigNum_eq(bigAcc, zero)
    /\ (bigHist = <<"add">> /\ bigA.sign # bigB.sign /\ bigA.num = bigB.num)
           => BigNum_eq(bigAcc, zero)

\* C5: for all canonical a and b, (a + b) - b equals a under BigNum equality.
C5_AddThenSubRestores ==
    bigHist = <<"add", "sub">> => BigNum_eq(bigAcc, bigA)

(***************************************************************************)
(* Claims about eval_to_string (SpecEval).                                 *)
(***************************************************************************)
Lit(c) == ValExrp(Value_from_str(<<c>>).ok)

DivisionByZero == [err |-> new_parse_error("Division by Zero")]

\* the value is the number 0, whatever the sign bit of its digits
DenotesZero(v) ==
    IF v.tag = "Number" THEN ToInt(v.num) = 0 ELSE ToInt(v.frac.numerator) = 0

\* C3: for every input, evaluation ends with a result string or an error
\* value and never panics: no division by zero, no Fraction with a zero
\* denominator and no inverse of a zero Fraction is reached.
C3_NeverPanics == ~IsPanic(output)

\* C7: a division node evaluates its right operand first; when that is zero
\* (an Integer of either sign bit, or a Fraction) the evaluation fails with
\* the division-by-zero error, the left operand is not evaluated and no
\* division is made; "1/0" fails so.
C7_ZeroDivisorChecked ==
    /\ (pc = "done" /\ ast # NoExpr /\ ast.tag = "BinExpr" /\ ast.op = "Divide")
           => /\ Len(evalTrace) >= 2
              /\ evalTrace[2] = Event("eval", <<"R">>)
              /\ LET r == eval(ast.right, <<"R">>)
                 IN  (IsOk(r.res) /\ DenotesZero(r.res.ok))
                         => /\ output = DivisionByZero
                            /\ \A i \in 2..Len(evalTrace) : Head(evalTrace[i].at) = "R"
                            /\ \A i \in 1..Len(evalTrace) : evalTrace[i].ev # "div"
                                                            \/ evalTrace[i].at # <<>>
    /\ (pc = "done" /\ input = <<"1", "/", "0">>) => output = DivisionByZero

\* C7 witness: the divisor was the negation of zero, and the division failed.
C7_Witness ==
    /\ pc = "done"
    /\ ast = BinExpr("Divide", Lit("1"), UnaryExpr("Negative", Lit("0")))
    /\ output = DivisionByZero
    /\ evalTrace = <<Event("eval", <<>>), Event("eval", <<"R">>), Event("eval", <<"R", "U">>)>>

\* C8: for a token sequence derived from the grammar, the parser builds the
\* tree of the derivation: negation binds tighter than * and /, which bind
\* tighter than + and -, equal levels group to the left, and a
\* parenthesized expression is one operand; "1+2*3" is 7, "(1+2)*3" is 9.
C8_ParserBuildsDerivationTree ==
    /\ (origin # NoExpr /\ pc \in {"eval", "done"}) => ast = origin
    /\ (pc = "done" /\ input = <<"1", "+", "2", "*", "3">>) => output = [ok |-> <<"7">>]
    /\ (pc = "done" /\ input = <<"(", "1", "+", "2", ")", "*", "3">>)
           => output = [ok |-> <<"9">>]

\* C8 witness: "1-2-3" was parsed as (1-2)-3 and evaluated.
C8_Witness ==
    /\ pc = "done"
    /\ input = <<"1", "-", "2", "-", "3">>
    /\ ast = BinExpr("Subtract", BinExpr("Subtract", Lit("1"), Lit("2")), Lit("3"))
    /\ output = [ok |-> <<"-", "4">>]

\* The token kinds of the sentences of Expression, Term and Factor.
RECURSIVE IsExpression(_), IsTerm(_), IsFactor(_)
IsExpression(s) ==
    \/ IsTerm(s)
    \/ \E i \in 2..(Len(s) - 1) :
           /\ s[i] \in {"Plus", "Dash"}
           /\ IsTerm(SubSeq(s, i + 1, Len(s)))
           /\ IsExpression(SubSeq(s, 1, i - 1))

IsTerm(s) ==
    \/ IsFactor(s)
    \/ \E i \in 2..(Len(s) - 1) :
           /\ s[i] \in {"Star", "Slash"}
           /\ IsFactor(SubSeq(s, i + 1, Len(s)))
           /\ IsTerm(SubSeq(s, 1, i - 1))

IsFactor(s) ==
    \/ Len(s) = 1 /\ s[1] = "Number"
    \/ Len(s) >= 2 /\ s[1] = "Dash" /\ IsFactor(Tail(s))
    \/ /\ Len(s) >= 3 /\ s[1] = "RightParen" /\ s[Len(s)] = "LeftParen"
       /\ IsExpression(SubSeq(s, 2, Len(s) - 1))

\* Start -> Expression End
Derivable(toks) ==
    /\ Len(toks) >= 2
    /\ toks[Len(toks)].kind = "End"
    /\ IsExpression([i \in 1..(Len(toks) - 1) |-> toks[i].kind])

\* C9: parse succeeds exactly on the token sequences of Start; on any other
\* it returns a ParseError without reading past End, and nothing is
\* evaluated; "2+" fails with a ParseError.
C9_ParseAcceptsExactlyTheGrammar ==
    (pc \in {"eval", "done"} /\ tokens # <<>>)
        => /\ (ast # NoExpr) <=> Derivable(tokens)
           /\ parsePos <= Len(tokens) + 1
           /\ ~Derivable(tokens)
                  => /\ pc = "done"
                     /\ ~IsPanic(output)
                     /\ "err" \in DOMAIN output
                     /\ output.err.level = "Parse"
                     /\ output.err.message # "Unexpected end of input"
                     /\ evalTrace = <<>>

\* C9 witness: "2+" was lexed and parse returned a ParseError.
C9_Witness ==
    /\ pc = "done"
    /\ input = <<"2", "+">>
    /\ tokens = <<Token_Number(Value_from_str(<<"2">>).ok), Token_Plus, Token_End>>
    /\ ast = NoExpr
    /\ "err" \in DOMAIN output /\ output.err.level = "Parse"

(***************************************************************************)
(* Claims about Frac (SpecFrac).                                           *)
(***************************************************************************)
\* the fraction is in lowest terms with a positive denominator
LowestTerms(f) ==
    /\ ToInt(f.denominator) > 0
    /\ IntGcd(IntAbs(ToInt(f.numerator)), ToInt(f.denominator)) = 1

\* C11: every Fraction Frac::new returns for a nonzero denominator of either
\* sign, and every Fraction returned by negation, inverse, +, -, *, / and
\* parsing, has a positive denominator and gcd(|numerator|, denominator) = 1.
C11_FractionsInLowestTerms ==
    /\ fracOp # "idle" => LowestTerms(fracL) /\ LowestTerms(fracR)
    /\ (fracOp \in {"neg", "inverse", "add", "sub", "mul", "div"} /\ ~IsPanic(fracRes))
           => LowestTerms(fracRes)
    /\ (fracOp = "parse" /\ IsOk(fracRes)) => LowestTerms(fracRes.ok)

\* C11 witness: Frac::new(2, -4) returned -1/2, and its inverse is -2/1.
C11_Witness ==
    /\ fracArgs[1] = from(<<2>>, TRUE)
    /\ fracArgs[2] = from(<<4>>, FALSE)
    /\ fracL = Frac(from(<<1>>, FALSE), from(<<2>>, TRUE))
    /\ fracOp = "inverse"
    /\ fracRes = Frac(from(<<2>>, FALSE), from(<<1>>, TRUE))

(***************************************************************************)
(* Claims about the BigNum operators against integer arithmetic (SpecBig). *)
(***************************************************************************)
\* x is not a panic and satisfies the BigInt invariant
IsCanonical(x) == IF IsPanic(x) THEN FALSE ELSE Canonical(x)

\* s has the digits of |a + b| and, when that is not 0, its sign
IsSum(a, b, s) ==
    /\ s.num = NatDigits(IntAbs(ToInt(a) + ToInt(b)))
    /\ (ToInt(a) + ToInt(b) # 0) => (s.sign <=> ToInt(a) + ToInt(b) > 0)

\* C12: for canonical a and b of any lengths and signs, a + b has the digits
\* of |a + b| without a leading zero, carries and borrows propagated through
\* every position, and a nonzero sum has the sign of the integer sum.
C12_AddIsIntegerSum ==
    /\ bigHist = <<"add">> => IsSum(bigA, bigB, bigAcc)
    /\ IsCanonical(bigAcc) => IsSum(bigAcc, bigB, BigNum_add(bigAcc, bigB))

\* C12 witness: 99 + 1 carried through both positions to 100.
C12_Witness ==
    /\ bigA = from(<<9, 9>>, TRUE)
    /\ bigB = from(<<1>>, TRUE)
    /\ bigHist = <<"add">>
    /\ bigAcc = BigNum(TRUE, <<1, 0, 0>>)

\* p has the digits of |a| * |b| and, when that is not 0, is negative
\* exactly when the signs of a and b differ
IsProduct(a, b, p) ==
    /\ p.num = NatDigits(IntAbs(ToInt(a)) * IntAbs(ToInt(b)))
    /\ (ToInt(a) * ToInt(b) # 0) => (p.sign <=> a.sign = b.sign)

\* C13: for canonical a and b, a * b has the digits of |a| * |b| without a
\* leading zero, a nonzero product is negative exactly when the signs
\* differ, and a * one == a.
C13_MulIsIntegerProduct ==
    /\ bigHist = <<"mul">> => IsProduct(bigA, bigB, bigAcc)
    /\ IsCanonical(bigAcc) => IsProduct(bigAcc, bigB, BigNum_mul(bigAcc, bigB))
    /\ BigNum_eq(BigNum_mul(bigA, one), bigA)
    /\ IsCanonical(bigAcc) => BigNum_eq(BigNum_mul(bigAcc, one), bigAcc)

\* C13 witness: 95 * -15 is -1425.
C13_Witness ==
    /\ bigA = from(<<9, 5>>, TRUE)
    /\ bigB = from(<<1, 5>>, FALSE)
    /\ bigHist = <<"mul">>
    /\ bigAcc = BigNum(FALSE, <<1, 4, 2, 5>>)

\* q is |a| / |b| rounded down, positive when the signs of a and b match
\* or the quotient is 0 and negative otherwise
IsQuotient(a, b, q) ==
    /\ q.num = NatDigits(IntAbs(ToInt(a)) \div IntAbs(ToInt(b)))
    /\ q.sign <=> (a.sign = b.sign \/ IntAbs(ToInt(a)) \div IntAbs(ToInt(b)) = 0)

\* every step of the long division of |a| by |b| counts a digit 0..9 and
\* leaves a remainder in 0..|b|-1
StepsInRange(a, b) ==
    \A st \in {DivTrace(abs(a).num, abs(b), 1, zero)[i] :
                   i \in 1..Len(DivTrace(abs(a).num, abs(b), 1, zero))} :
        /\ ToInt(st.count) \in 0..9
        /\ ToInt(st.remainder) \in 0..(IntAbs(ToInt(b)) - 1)

\* C14: for canonical a and nonzero b, a / b is the quotient truncated
\* toward zero, positive when the signs match or the quotient is zero and
\* negative otherwise; each step of the long division emits a digit 0..9
\* and leaves a running remainder smaller than |b|.
C14_DivTruncatesTowardZero ==
    /\ (bigHist = <<"div">> /\ ~is_zero(bigB))
           => IsQuotient(bigA, bigB, bigAcc) /\ StepsInRange(bigA, bigB)
    /\ (IsCanonical(bigAcc) /\ ~is_zero(bigB))
           => /\ IsQuotient(bigAcc, bigB, BigNum_div(bigAcc, bigB))
              /\ StepsInRange(bigAcc, bigB)

\* C14 witness: -95 / 15 is -6 (rounding down would give -7).
C14_Witness ==
    /\ bigA = from(<<9, 5>>, FALSE)
    /\ bigB = from(<<1, 5>>, TRUE)
    /\ bigHist = <<"div">>
    /\ bigAcc = BigNum(FALSE, <<6>>)

\* r is the remainder of a by b: a == (a / b) * b + r as BigNums and as
\* integers, |r| < |b|, and r has the sign of a
IsRemainder(a, b, r) ==
    /\ BigNum_eq(a, BigNum_add(BigNum_mul(BigNum_div(a, b), b), r))
    /\ ToInt(a) = ToInt(BigNum_div(a, b)) * ToInt(b) + ToInt(r)
    /\ IntAbs(ToInt(r)) < IntAbs(ToInt(b))
    /\ r.sign = a.sign

\* C15: for canonical a and nonzero b, r = a % b satisfies
\* a == (a / b) * b + r and |r| < |b| and has the sign of the dividend a;
\* a % b with b zero fails.
C15_RemCompletesDiv ==
    /\ (bigHist = <<"rem">> /\ ~is_zero(bigB)) => IsRemainder(bigA, bigB, bigAcc)
    /\ (bigHist = <<"rem">> /\ is_zero(bigB)) => IsPanic(bigAcc)
    /\ (IsCanonical(bigAcc) /\ ~is_zero(bigB))
           => IsRemainder(bigAcc, bigB, BigNum_rem(bigAcc, bigB))
    /\ IsCanonical(bigAcc) => IsPanic(BigNum_rem(bigAcc, zero))

\* C15 witness: -95 % -15 is -5, the sign of the dividend.
C15_Witness ==
    /\ bigA = from(<<9, 5>>, FALSE)
    /\ bigB = from(<<1, 5>>, FALSE)
    /\ bigHist = <<"rem">>
    /\ bigAcc = BigNum(FALSE, <<5>>)

\* g is positive, divides a and b exactly and is the greatest such divisor
\* (the one Euclid's algorithm on the integers finds)
IsGcd(a, b, g) ==
    /\ g.sign /\ ToInt(g) > 0
    /\ is_zero(BigNum_rem(a, g)) /\ is_zero(BigNum_rem(b, g))
    /\ IntAbs(ToInt(a)) % ToInt(g) = 0 /\ IntAbs(ToInt(b)) % ToInt(g) = 0
    /\ ToInt(g) = IntGcd(IntAbs(ToInt(a)), IntAbs(ToInt(b)))

BigNumRoundTrip(x) ==
    /\ "ok" \in DOMAIN BigNum_from_str(BigNum_fmt(x))
    /\ BigNum_eq(BigNum_from_str(BigNum_fmt(x)).ok, x)

\* C17: for every BigInt and every Fraction the constructors and operations
\* produce, parsing its display string succeeds and yields a value equal to
\* the original under the equality of its type.
C17_DisplayParseRoundTrip ==
    /\ fracOp = "parse" => (IsOk(fracRes) /\ Frac_eq(fracRes.ok, fracL))
    /\ fracOp # "idle" => BigNumRoundTrip(fracL.numerator)
                            /\ BigNumRoundTrip(fracL.denominator)

\* the integers n / d in lowest terms with a positive denominator
Reduced(n, d) ==
    <<((IF d < 0 THEN 0 - n ELSE n) \div IntGcd(IntAbs(n), IntAbs(d))),
      IntAbs(d) \div IntGcd(IntAbs(n), IntAbs(d))>>

\* numerator and denominator of a fraction as integers
AsPair(f) == <<ToInt(f.numerator), ToInt(f.denominator)>>

\* the result of the operation applied to a/b and c/d
FracResultIs(a, b, c, d) ==
    /\ fracOp = "add" => ~IsPanic(fracRes) /\ AsPair(fracRes) = Reduced(a * d + b * c, b * d)
    /\ fracOp = "sub" => ~IsPanic(fracRes) /\ AsPair(fracRes) = Reduced(a * d - b * c, b * d)
    /\ fracOp = "mul" => ~IsPanic(fracRes) /\ AsPair(fracRes) = Reduced(a * c, b * d)
    /\ (fracOp = "div" /\ c # 0)
           => ~IsPanic(fracRes) /\ AsPair(fracRes) = Reduced(a * d, b * c)
    /\ (fracOp = "div" /\ c = 0) => IsPanic(fracRes)

\* C19: for constructor-built fractions a/b and c/d the sum is (ad+bc)/bd,
\* the difference (ad-bc)/bd, the product ac/bd and, when c is not 0, the
\* quotient ad/bc, each in lowest terms with a positive denominator;
\* dividing by a zero fraction fails.
C19_FracArithmetic ==
    fracOp # "idle" =>
        FracResultIs(ToInt(fracArgs[1]), ToInt(fracArgs[2]),
                     ToInt(fracArgs[3]), ToInt(fracArgs[4]))

\* C19 witness: (1/2) / (1/-4) is -2/1.
C19_Witness ==
    /\ fracArgs = <<from(<<1>>, TRUE), from(<<2>>, TRUE),
                    from(<<1>>, TRUE), from(<<4>>, FALSE)>>
    /\ fracOp = "div"
    /\ fracRes = Frac(from(<<2>>, FALSE), from(<<1>>, TRUE))

\* C20: for two fractions built by the constructor, f == g holds exactly
\* when numerator(f) * denominator(g) = numerator(g) * denominator(f), that
\* is when they are the same rational number; equality is reflexive and
\* symmetric, Frac(2,4) == Frac(1,2), and a fraction built with a zero
\* numerator and a denominator of either sign equals 0/1.
C20_FracEqualityIsRationalEquality ==
    /\ fracOp = "eq"
           => /\ fracRes.eq <=> (ToInt(fracArgs[1]) * ToInt(fracArgs[4])
                                    = ToInt(fracArgs[3]) * ToInt(fracArgs[2]))
              /\ fracRes.eq <=> (ToInt(fracL.numerator) * ToInt(fracR.denominator)
                                    = ToInt(fracR.numerator) * ToInt(fracL.denominator))
              /\ fracRes.eq <=> Frac_eq(fracR, fracL)
              /\ Frac_eq(fracL, fracL)
              /\ is_zero(fracArgs[1]) => Frac_eq(fracL, Frac_new(zero, one))
    /\ (fracOp = "eq" /\ ToInt(fracArgs[1]) = 2 /\ ToInt(fracArgs[2]) = 4
            /\ ToInt(fracArgs[3]) = 1 /\ ToInt(fracArgs[4]) = 2) => fracRes.eq

(***************************************************************************)
(* Claims about parsed integers (SpecEval).                                *)
(***************************************************************************)
\* C18: every BigInt made by parsing text, every integer literal lexed from
\* an expression included, satisfies the BigInt invariant (no leading zero,
\* zero is the digit 0 with positive sign): a literal with leading zeros
\* such as "002" is the value of "2" and displays as "2", and "-0" parses
\* to canonical zero.
C18_ParsedIntegersCanonical ==
    /\ \A i \in 1..Len(tokens) :
           tokens[i].kind = "Number"
               => tokens[i].value.tag = "Number" /\ Canonical(tokens[i].value.num)
    /\ (pc = "done" /\ input = <<"0", "0", "2">>) => output = [ok |-> <<"2">>]
    /\ (pc = "done" /\ input = <<"-", "0">>)
           => BigNum_eq(BigNum_from_str(input).ok, zero)

(***************************************************************************)
(* Claims about the lexer (SpecEval).                                      *)
(***************************************************************************)
\* the whitespace characters among TextChars
Whitespace == {" ", "\t"}

\* the characters the lexer is to accept
Lexable == Whitespace \cup {DigitChars[d] : d \in 1..10}
               \cup {"+", "-", "*", "/", "(", ")"}

\* the positions of the characters of the text that are not to be accepted
Offending(text) == {i \in 1..Len(text) : text[i] \notin Lexable}

IsLexError(o) == IF "err" \in DOMAIN o THEN o.err.level = "Lex" ELSE FALSE

\* C21: whitespace (space, tab) is skipped without a token or an error, and
\* lexing fails, with a LexError naming the character, exactly when the
\* input holds a character that is neither whitespace, a digit nor one of
\* + - * / ( ).
C21_LexerClassifiesCharacters ==
    pc # "lex" =>
        /\ IsLexError(output) <=> Offending(input) # {}
        /\ Offending(input) # {}
               => output = [err |-> new_lex_error("Unrecognized character",
                                input[CHOOSE i \in Offending(input) :
                                          \A j \in Offending(input) : i <= j])]

(***************************************************************************)
(* Further claims about BigNum (SpecBig).                                  *)
(***************************************************************************)
\* C22: gcd of a nonzero BigInt and zero fails (panics) instead of
\* returning a value, as the should_panic test for gcd(123, 0) asserts.
C22_GcdWithZeroPanics ==
    (bigGcd # NoOutput /\ ~is_zero(bigAcc) /\ is_zero(bigB)) => IsPanic(bigGcd)

\* C23: starting from canonical BigInts, after any sequence of negation, +,
\* -, *, / and % (nonzero divisor) and gcd, every result is canonical:
\* digits in 0..9, no leading zero, and zero with the positive sign.
C23_ResultsStayCanonical ==
    /\ ~IsPanic(bigAcc) => Canonical(bigAcc)
    /\ "ok" \in DOMAIN bigGcd => Canonical(bigGcd.ok)

\* the Ordering of two integers
IntOrdering(a, b) ==
    IF a < b THEN "Less" ELSE IF a > b THEN "Greater" ELSE "Equal"

\* C24: on canonical BigInts the comparison returns the ordering of the
\* represented integers, whatever their signs and lengths (so it is a total
\* order, a non-negative value above a negative one, magnitudes reversed for
\* two negatives), and it returns Equal exactly when == holds.
C24_ComparisonIsNumericOrder ==
    (bigCmp # NoOutput /\ IsCanonical(bigAcc) /\ IsCanonical(bigB)) =>
        /\ bigCmp.ord = IntOrdering(ToInt(bigAcc), ToInt(bigB))
        /\ (bigCmp.ord = "Equal") <=> bigCmp.eq

\* -15 was compared with -9: both negative, the longer one is the smaller
C24_Witness ==
    /\ bigCmp # NoOutput
    /\ bigAcc = from(<<1, 5>>, FALSE)
    /\ bigB = from(<<9>>, FALSE)
    /\ bigCmp = [ord |-> "Less", eq |-> FALSE]

(***************************************************************************)
(* The token stream of a text, read off the text position by position.     *)
(***************************************************************************)
IsDigitChar(c) == \E d \in 1..10 : DigitChars[d] = c

DigitOf(c) == (CHOOSE d \in 1..10 : DigitChars[d] = c) - 1

\* the characters lexing is defined on in C25
OnlyLexed(text) ==
    \A i \in 1..Len(text) :
        text[i] = " " \/ IsDigitChar(text[i]) \/ text[i] \in {"+", "-", "*", "/", "(", ")"}

\* the kind of token of an operator or parenthesis character (the enum calls
\* the token of '(' RightParen and that of ')' LeftParen)
KindOf(c) ==
    CASE c = "+" -> "Plus"
      [] c = "-" -> "Dash"
      [] c = "*" -> "Star"
      [] c = "/" -> "Slash"
      [] c = "(" -> "RightParen"
      [] c = ")" -> "LeftParen"

\* position i starts a maximal run of digits
RunStart(text, i) ==
    IsDigitChar(text[i]) /\ (i = 1 \/ ~IsDigitChar(text[i - 1]))

\* the last position of the maximal run of digits that holds position i
RECURSIVE RunEnd(_, _)
RunEnd(text, i) ==
    IF i < Len(text) /\ IsDigitChar(text[i + 1]) THEN RunEnd(text, i + 1) ELSE i

\* the integer a run of digit characters denotes
RunValue(text, i, j) == DigitsValue([k \in 1..(j - i + 1) |-> DigitOf(text[i + k - 1])])

\* the tokens expected from position i on: kind and, for a Number, its value
RECURSIVE Expected(_, _)
Expected(text, i) ==
    IF i > Len(text) THEN << [kind |-> "End"] >>
    ELSE IF RunStart(text, i)
    THEN << [kind |-> "Number", int |-> RunValue(text, i, RunEnd(text, i))] >>
             \o Expected(text, i + 1)
    ELSE IF text[i] = " " \/ IsDigitChar(text[i]) THEN Expected(text, i + 1)
    ELSE << [kind |-> KindOf(text[i])] >> \o Expected(text, i + 1)

\* token t is the expected token e
Matches(t, e) ==
    /\ t.kind = e.kind
    /\ t.kind = "Number" => t.value.tag = "Number" /\ ToInt(t.value.num) = e.int

\* how many tokens of the kind there are
CountKind(toks, kind) == Cardinality({k \in 1..Len(toks) : toks[k].kind = kind})

\* C25: for an input made only of spaces, digits and + - * / ( ) the lexer
\* returns, in input order, one token per operator or parenthesis character
\* and one Number per maximal run of digits; the character ending a digit
\* run is tokenized too, every '-' is a Dash of its own, and End occurs once,
\* as the last token.
C25_LexerTokensInInputOrder ==
    (pc # "lex" /\ OnlyLexed(input)) =>
        /\ ~IsLexError(output)
        /\ Len(tokens) = Len(Expected(input, 1))
        /\ \A k \in 1..Len(tokens) : Matches(tokens[k], Expected(input, 1)[k])
        /\ CountKind(tokens, "Dash")
               = Cardinality({i \in 1..Len(input) : input[i] = "-"})
        /\ CountKind(tokens, "End") = 1
        /\ tokens[Len(tokens)] = Token_End

\* "1-2" was lexed: the '-' that ended the first digit run is a Dash
C25_Witness ==
    /\ pc # "lex"
    /\ input = <<"1", "-", "2">>
    /\ tokens = << Token_Number(Value_Number(from(<<1>>, TRUE))), Token_Dash,
                   Token_Number(Value_Number(from(<<2>>, TRUE))), Token_End >>

====
